---- MODULE Spec2Model ----
(***************************************************************************)
(* The webhook delivery subsystem of ai-digest (src/src/services/          *)
(* webhooks.py) with its callers in src/src/server.py and                  *)
(* src/backend/workflows/pipeline.py.                                      *)
(*                                                                         *)
(* Threads are the Flask request handlers and the pipeline threads started *)
(* by trigger_pipeline.  They share one WebhookManager (the module          *)
(* singleton): its dict `webhooks`, the Webhook objects it refers to, and  *)
(* the backing file.  The code takes no lock, so the threads interleave at *)
(* every step below.  Inside one thread the asyncio tasks of a send_to_all *)
(* interleave only where a task awaits the HTTP POST.                      *)
(***************************************************************************)
EXTENDS Integers, Sequences, FiniteSets, TLC

(* ------------------------------ bounds --------------------------------- *)

\* Number of webhook ids callers use.
MaxIds == 2
\* Number of Webhook objects that can be allocated (loaded or created).
MaxObjs == 2
\* Number of HTTP POSTs the endpoints answer.
MaxPosts == 2
\* Number of /api/webhooks requests each handler thread serves.
MaxRequests == 2
\* Number of pipeline runs (with deliver) each pipeline thread makes.
MaxRuns == 1
\* Number of operations (requests and pipeline runs together) when they are
\* made one after the other.
MaxSeqOps == 2
\* Number of Flask request-handler threads serving /api/webhooks requests.
NumHandlers == 1
\* Number of threads running run_pipeline_background (a pipeline run with deliver).
NumPipelines == 1

Ids == 1..MaxIds
Addrs == 1..MaxObjs
Handlers == 1..NumHandlers
Pipelines == (NumHandlers + 1)..(NumHandlers + NumPipelines)
Threads == Handlers \cup Pipelines

(* ---------------------------- data model ------------------------------- *)

\* Optional[str] = None for last_triggered_at; timestamps are clock readings >= 0.
NoTime == -1

\* payload_template: Optional[str] = None
NoTemplate == "<None>"

\* JSON texts a payload_template may hold: an object, an array, and a text that
\* is not JSON.
TemplateObject == "{\"text\": \"t\"}"
TemplateArray == "[1]"
TemplateInvalid == "{oops"

\* json.loads of a template text: the kind of value it returns, or the
\* exception it raises.
json_loads(text) ==
    CASE text = TemplateObject -> "dict"
      [] text = TemplateArray -> "list"
      [] OTHER -> "JSONDecodeError"

\* send_to_webhook, `if webhook.payload_template:` and the try block under it:
\*   "none"  - no template (None or ""), the payload stays as built;
\*   "merge" - json.loads gave a dict, payload.update(template) merges it;
\*   "warn"  - json.loads raised JSONDecodeError, logged, the payload stays;
\*   "raise" - json.loads gave a value that is no mapping: payload.update raises
\*             TypeError, which the inner `except json.JSONDecodeError` lets pass.
TemplateEffect(template) ==
    IF template \in {NoTemplate, ""} THEN "none"
    ELSE CASE json_loads(template) = "dict" -> "merge"
           [] json_loads(template) = "JSONDecodeError" -> "warn"
           [] OTHER -> "raise"

\* send_to_webhook: the body POSTed, `json=payload`: the payload built for the
\* webhook's type, with the template's keys merged in when there is a template
\* that applies.
Body(template) == IF TemplateEffect(template) = "merge" THEN "merged" ELSE "builtin"

\* class WebhookType(str, Enum): the values of its members.
WebhookTypes == {"slack", "discord", "generic"}

\* WebhookType(value): the member with that value; ValueError for any other.
WebhookType(value) ==
    CASE value = "slack" -> "WebhookType.SLACK"
      [] value = "discord" -> "WebhookType.DISCORD"
      [] value = "generic" -> "WebhookType.GENERIC"
      [] OTHER -> "ValueError"

\* member.value, which is also what json.dump writes for a member.
TypeValue(member) ==
    CASE member = "WebhookType.SLACK" -> "slack"
      [] member = "WebhookType.DISCORD" -> "discord"
      [] member = "WebhookType.GENERIC" -> "generic"
      [] OTHER -> member

\* Mutant: the dataclass is built without the payload_template argument.
Webhook_NoTemplate(id, name, type, url, headers, template, ts) ==
    [id |-> id, name |-> name, type |-> type, url |-> url, enabled |-> TRUE,
     headers |-> headers, payload_template |-> NoTemplate,
     created_at |-> ts, updated_at |-> ts,
     last_triggered_at |-> NoTime, trigger_count |-> 0]

\* dataclass Webhook, as built by create_webhook at clock reading `ts`.
Webhook(id, name, type, url, headers, template, ts) ==
    [id |-> id, name |-> name, type |-> type, url |-> url, enabled |-> TRUE,
     headers |-> headers, payload_template |-> template,
     created_at |-> ts, updated_at |-> ts,
     last_triggered_at |-> NoTime, trigger_count |-> 0]

\* Webhook.to_dict followed by json.dump: the record as the file holds it.
to_dict(w) == [w EXCEPT !.type = TypeValue(@)]

\* json.load followed by Webhook.from_dict: a type given as a string is
\* converted to the member.
from_dict(d) == [d EXCEPT !.type = WebhookType(@)]

\* Names defined by the metrics module.
MetricsDefined ==
    {"ai_digest_runs_total", "items_ingested_total", "embeddings_seconds",
     "delivery_email_success_total", "delivery_telegram_success_total",
     "delivery_failures_total"}

\* response.status in (200, 201, 204)
SuccessStatuses == {200, 201, 204}

\* Statuses an endpoint may answer with.
Statuses == {200, 201, 202, 204, 500}

\* What one awaited POST can end in.
Outcomes ==
    [kind : {"response"}, status : Statuses]
      \cup {[kind |-> "timeout", status |-> 0], [kind |-> "exception", status |-> 0]}

\* How the endpoint answered, for the record kept of a call: "accepted" is a
\* response with status 200, 201 or 204, "rejected" a response with another status.
Answer(o) ==
    CASE o.kind = "response" /\ o.status \in {200, 201, 204} -> "accepted"
      [] o.kind = "response" -> "rejected"
      [] OTHER -> o.kind

(* ------------------------------- state --------------------------------- *)

VARIABLES
    now,        \* the reading of datetime.utcnow(); records loaded at start-up carry 0
    aiohttp,    \* whether `import aiohttp` succeeds in this installation
    manager,    \* the WebhookManager singleton: "none" before construction, "ready",
                \* or the exception its construction raised
    heap,       \* Webhook objects, by address (a sequence: address = index)
    webhooks,   \* WebhookManager.webhooks: id -> address, 0 when absent
    file,       \* the backing file: [kind, data]
    failures,   \* metrics.delivery_failures_total
    posts,      \* number of HTTP POSTs issued so far
    succ,       \* per object: number of 200/201/204 responses received for it
    saveFailedEver, \* whether any _save_webhooks has raised so far
    th,         \* per thread: the operation in progress and its locals
    env,        \* os.environ, as far as the delivery channels read it
    run,        \* per pipeline thread: the Pipeline.run in progress
    direct,     \* the last call of send_email / send_telegram made outside a run
    build       \* the last payload built: its inputs and the payload

\* What lies outside the webhook registry and sender.
outside == <<env, run, direct, build>>

vars == <<now, aiohttp, manager, heap, webhooks, file, failures, posts, succ, saveFailedEver, th,
          env, run, direct, build>>

\* The backing file does not hold a record for an id.
Absent == [id |-> 0]

\* Webhook.to_dict / json.dump of the whole registry.
RegistryDict == [i \in Ids |-> IF webhooks[i] = 0 THEN Absent ELSE to_dict(heap[webhooks[i]])]

NoData == [i \in Ids |-> Absent]

\* Return value of an operation.
Ret(kind, map) == [kind |-> kind, map |-> map]
NoRet == Ret("none", <<>>)

\* One send_to_webhook call (a coroutine) and what became of it.
NewCall(w) ==
    [w |-> w, st |-> "new", answer |-> "none", tcRead |-> 0,
     wasEnabled |-> FALSE, posted |-> FALSE, body |-> "none", stored |-> FALSE,
     saveFailed |-> FALSE, counted |-> 0, result |-> "none"]

\* The arguments of a manager operation: each is {} (None, or not a parameter of
\* the operation) or {v}.
Args(name, type, url, enabled, headers, template) ==
    [name |-> name, type |-> type, url |-> url, enabled |-> enabled,
     headers |-> headers, payload_template |-> template]
NoArgs == Args({}, {}, {}, {}, {}, {})

IdleThread ==
    [op |-> "idle", pc |-> "idle", id |-> 0, args |-> NoArgs,
     again |-> FALSE, calls |-> <<>>, cur |-> 0,
     data |-> NoData, ret |-> NoRet, snapIds |-> {}, writes |-> 0, myPosts |-> 0, n |-> 0]

\* The environment variables read by pipeline.py and delivery.py, as os.getenv
\* gives them: "" stands for an unset or empty variable.
Env(email, chat, host, port, token) ==
    [DELIVERY_EMAIL |-> email, TELEGRAM_CHAT_ID |-> chat, SMTP_HOST |-> host,
     SMTP_PORT |-> port, TELEGRAM_TOKEN |-> token]
NoEnv == Env("", "", "", "", "")

\* What a call of send_email or send_telegram came to: its return value (or the
\* exception that left it), whether it tried a network send, what it added to
\* delivery_failures_total.
Sent(ret, tried, counted) == [ret |-> ret, tried |-> tried, counted |-> counted]
NotCalled == Sent("none", FALSE, 0)

\* One Pipeline.run: its argument, where it is, what its channels came to.
IdleRun ==
    [phase |-> "idle", deliver |-> FALSE, email |-> NotCalled, telegram |-> NotCalled,
     emails |-> 0, telegrams |-> 0, ret |-> "none"]

\* A call of a sync wrapper of delivery.py made on its own.
NoDirect == [fn |-> "none", chat_id |-> "", res |-> NotCalled]

\* One call of a payload builder: the webhook type that selects it, its title and
\* content (strings are sequences of code points), and the text of the payload
\* field that carries the content, once built.
NoBuild == [type |-> "none", title |-> <<>>, content |-> <<>>, built |-> FALSE, text |-> <<>>]

(* ------------------------------ helpers -------------------------------- *)

\* The ids in `s` in increasing order.
RECURSIVE SortedIds(_)
SortedIds(s) ==
    IF s = {} THEN <<>>
    ELSE LET a == CHOOSE x \in s : \A y \in s : x <= y
         IN <<a>> \o SortedIds(s \ {a})

\* Mutant: an argument that is given is ignored.
OrElse_Keep(opt, old) == old

\* Optional arguments: {} is None, {v} is the value v.
OrElse(opt, old) == IF opt = {} THEN old ELSE CHOOSE v \in opt : TRUE

\* create_webhook: `headers or {}` (a dict is modelled by the set of its items).
HeadersOrEmpty(headers) == OrElse(headers, {})

\* Mutant: toggle enables.
Toggled_On(enabled) == TRUE

\* toggle_webhook: `not webhook.enabled`
Toggled(enabled) == ~enabled

\* Mutant: create_webhook does not look for the id.
Registered_Never(id) == FALSE

\* create_webhook: `webhook_id in self.webhooks`
Registered(id) == webhooks[id] # 0

\* Mutant: delete empties the dict.
Without_All(id) == [i \in Ids |-> 0]

\* delete_webhook: `del self.webhooks[webhook_id]`
Without(id) == [webhooks EXCEPT ![id] = 0]

\* WebhookManager.get_webhook: the record the dict holds for id, Absent for None.
get_webhook(id) == IF webhooks[id] = 0 THEN Absent ELSE heap[webhooks[id]]

\* The addresses in `s` as a list, in the order of the ids that refer to them.
RECURSIVE AddrList(_)
AddrList(s) ==
    IF s = {} THEN <<>>
    ELSE LET a == CHOOSE x \in s : \A y \in s : heap[x].id <= heap[y].id
         IN <<a>> \o AddrList(s \ {a})

\* WebhookManager.list_webhooks: the objects the dict refers to.
list_webhooks == {webhooks[i] : i \in {j \in Ids : webhooks[j] # 0}}

\* Mutant: the `if w.enabled` filter of the comprehension is missing.
enabled_webhooks_Unfiltered == AddrList(list_webhooks)

\* send_to_all: enabled_webhooks = [w for w in webhooks if w.enabled]
enabled_webhooks == AddrList({a \in list_webhooks : heap[a].enabled})

\* Mutant: the disabled check is missing.
SkipsDisabled_Never(w) == FALSE

\* send_to_webhook: `if not webhook.enabled: return False`
SkipsDisabled(w) == ~heap[w].enabled

\* Mutant: any 2xx status is taken as success.
IsSuccess_Any2xx(o) == o.kind = "response" /\ o.status >= 200 /\ o.status < 300

\* send_to_webhook: `if response.status in (200, 201, 204)`
IsSuccess(o) == o.kind = "response" /\ o.status \in SuccessStatuses

\* Mutant: only the timeout handler is there, `except Exception` is missing.
Catches_TimeoutOnly(exc) == exc = "TimeoutError"

\* send_to_webhook: `except asyncio.TimeoutError` and `except Exception` around
\* the whole body: every exception raised inside is caught.
Catches(exc) == exc \in {"TimeoutError", "ClientError", "OSError", "AttributeError", "TypeError"}

\* send_to_webhook: `webhook.trigger_count += 1`, the value stored.
Incremented(tc) == tc + 1

\* Mutant: the map is built over the registry as it is when gather returns.
Results_Registered(calls) ==
    [i \in {j \in Ids : webhooks[j] # 0 /\ \E k \in 1..Len(calls) : calls[k].w = webhooks[j]} |->
        LET k == CHOOSE j \in 1..Len(calls) : calls[j].w = webhooks[i]
        IN calls[k].result = "true"]

\* send_to_all: `results[webhook.id] = success` over zip(enabled_webhooks, responses)
Results(calls) ==
    [i \in {heap[calls[k].w].id : k \in 1..Len(calls)} |->
        LET k == CHOOSE j \in 1..Len(calls) : heap[calls[j].w].id = i
        IN calls[k].result = "true"]

MaxOps(t) == IF t \in Handlers THEN MaxRequests ELSE MaxRuns

\* Thread t is free to begin an operation: it has none in progress (the last
\* one's result stays in its record until the next begins).
CanStart(t) == manager = "ready" /\ th[t].pc \in {"idle", "done"} /\ th[t].n < MaxOps(t)

\* Thread t begins operation `op` on `id` with fresh locals; `again` notes that
\* its last operation was the same one on the same id and returned normally.
Begin(t, op, id) ==
    [th EXCEPT ![t] = [IdleThread EXCEPT !.op = op, !.id = id, !.n = th[t].n + 1,
                                         !.again = /\ th[t].op = op
                                                   /\ th[t].id = id
                                                   /\ th[t].ret.kind = "ok"]]

Cur(t) == th[t].calls[th[t].cur]

\* The operation of thread t ends with return value r.
Done(t, r) == [th EXCEPT ![t].pc = "done", ![t].ret = r, ![t].cur = 0]

\* Call i of thread t ends as c; control goes back to the event loop.
EndCall(t, i, c) ==
    [th EXCEPT ![t].calls[i] = [c EXCEPT !.st = "done"], ![t].cur = 0, ![t].pc = "loop"]

\* An exception `exc` raised inside send_to_webhook's try block, in call c:
\* when caught, the failure counter is incremented and the call returns False.
Raised(c, exc) ==
    IF Catches(exc)
    THEN [c EXCEPT !.result = "false", !.counted = @ + 1]
    ELSE [c EXCEPT !.result = "raised"]

\* Mutant: an exception caught by send_to_webhook is not counted.
CountedBy_Never(exc) == 0

\* What a caught exception adds to metrics.delivery_failures_total.
CountedBy(exc) == IF Catches(exc) THEN 1 ELSE 0

(* ------------------------------- Init ---------------------------------- *)

\* The state after WebhookManager() has loaded a file that an earlier run of the
\* program wrote (or found none): any set of ids, each enabled or not, no
\* delivery recorded yet.
Init ==
    /\ now = 1
    /\ aiohttp \in BOOLEAN
    /\ manager = "ready"
    /\ \E present \in SUBSET Ids : \E en \in [present -> BOOLEAN] :
         /\ Cardinality(present) <= MaxObjs
         /\ LET order == SortedIds(present)
            IN /\ heap = [k \in 1..Len(order) |->
                            [Webhook(order[k], "n", WebhookType("generic"), "u", {}, NoTemplate, 0)
                               EXCEPT !.enabled = en[order[k]]]]
               /\ webhooks = [i \in Ids |->
                            IF i \in present
                            THEN CHOOSE k \in 1..Len(order) : order[k] = i ELSE 0]
    /\ file = [kind |-> IF webhooks = [i \in Ids |-> 0] THEN "missing" ELSE "json",
               data |-> RegistryDict]
    /\ failures = 0
    /\ posts = 0
    /\ succ = [a \in Addrs |-> 0]
    /\ saveFailedEver = FALSE
    /\ th = [t \in Threads |-> IdleThread]
    /\ env = NoEnv
    /\ run = [t \in Pipelines |-> IdleRun]
    /\ direct = NoDirect
    /\ build = NoBuild

(* ----------------------- WebhookManager operations ---------------------- *)

\* create_webhook up to its call of _save_webhooks; headers is {} (None) or {dict}.
create_webhook(t, id, name, type, url, headers, template) ==
    /\ CanStart(t)
    /\ IF Registered(id)
       THEN \* raise ValueError("... already exists")
            /\ th' = [Begin(t, "create", id) EXCEPT ![t].pc = "done", ![t].ret = Ret("ValueError", <<>>),
                         ![t].args = Args({name}, {type}, {url}, {}, headers, {template})]
            /\ UNCHANGED <<outside, now, aiohttp, manager, heap, webhooks>>
       ELSE /\ Len(heap) < MaxObjs
            /\ heap' = Append(heap, Webhook(id, name, type, url, HeadersOrEmpty(headers),
                                              template, now))
            /\ webhooks' = [webhooks EXCEPT ![id] = Len(heap) + 1]
            /\ UNCHANGED <<outside, now, aiohttp, manager>>
            /\ th' = [Begin(t, "create", id) EXCEPT ![t].pc = "save_open",
                         ![t].args = Args({name}, {type}, {url}, {}, headers, {template})]
    /\ UNCHANGED <<file, failures, posts, succ, saveFailedEver>>

\* update_webhook up to its call of _save_webhooks; each argument is {} (None) or {v}.
update_webhook(t, id, name, url, enabled, headers, template) ==
    /\ CanStart(t)
    /\ IF webhooks[id] = 0
       THEN \* raise ValueError("... not found")
            /\ th' = [Begin(t, "update", id) EXCEPT ![t].pc = "done", ![t].ret = Ret("ValueError", <<>>),
                         ![t].args = Args(name, {}, url, enabled, headers, template)]
            /\ UNCHANGED <<outside, now, aiohttp, manager, heap>>
       ELSE /\ heap' = [heap EXCEPT ![webhooks[id]] =
                          [@ EXCEPT !.name = OrElse(name, @),
                                    !.url = OrElse(url, @),
                                    !.enabled = OrElse(enabled, @),
                                    !.headers = OrElse(headers, @),
                                    !.payload_template = OrElse(template, @),
                                    !.updated_at = now]]
            /\ UNCHANGED <<outside, now, aiohttp, manager>>
            /\ th' = [Begin(t, "update", id) EXCEPT ![t].pc = "save_open",
                         ![t].args = Args(name, {}, url, enabled, headers, template)]
    /\ UNCHANGED <<webhooks, file, failures, posts, succ, saveFailedEver>>

\* delete_webhook up to its call of _save_webhooks.
delete_webhook(t, id) ==
    /\ CanStart(t)
    /\ IF webhooks[id] = 0
       THEN /\ th' = [Begin(t, "delete", id) EXCEPT ![t].pc = "done", ![t].ret = Ret("False", <<>>)]
            /\ UNCHANGED webhooks
       ELSE /\ webhooks' = Without(id)
            /\ th' = [Begin(t, "delete", id) EXCEPT ![t].pc = "save_open"]
    /\ UNCHANGED <<outside, now, aiohttp, manager, heap, file, failures, posts, succ, saveFailedEver>>

\* toggle_webhook up to its call of _save_webhooks.  The operation has no
\* argument but the id; the record kept of it notes, as `enabled`, the value
\* it found.
toggle_webhook(t, id) ==
    /\ CanStart(t)
    /\ IF webhooks[id] = 0
       THEN \* raise ValueError("... not found")
            /\ th' = [Begin(t, "toggle", id) EXCEPT ![t].pc = "done", ![t].ret = Ret("ValueError", <<>>)]
            /\ UNCHANGED <<outside, now, aiohttp, manager, heap>>
       ELSE /\ heap' = [heap EXCEPT ![webhooks[id]] =
                          [@ EXCEPT !.enabled = Toggled(@), !.updated_at = now]]
            /\ UNCHANGED <<outside, now, aiohttp, manager>>
            /\ th' = [Begin(t, "toggle", id) EXCEPT ![t].pc = "save_open",
                         ![t].args = Args({}, {}, {}, {heap[webhooks[id]].enabled}, {}, {})]
    /\ UNCHANGED <<webhooks, file, failures, posts, succ, saveFailedEver>>

(* --------------------------- _save_webhooks ----------------------------- *)

\* What the caller of _save_webhooks does once the file is written.
\*  - a manager operation returns its result (delete True, the others the
\*    Webhook, "ok");
\*  - send_to_webhook goes on to `metrics_module.delivery_webhooks_success_total
\*    .inc()`: the metrics module defines no such name, the attribute lookup
\*    raises AttributeError inside the try block; otherwise it returns True.
AfterSave(t) ==
    IF th[t].cur = 0
    THEN /\ th' = [Done(t, Ret(IF th[t].op = "delete" THEN "True" ELSE "ok", <<>>))
                     EXCEPT ![t].data = NoData]
         /\ UNCHANGED failures
    ELSE LET c == Cur(t) IN
         IF "delivery_webhooks_success_total" \in MetricsDefined
         THEN /\ th' = [EndCall(t, th[t].cur, [c EXCEPT !.result = "true"])
                          EXCEPT ![t].data = NoData]
              /\ UNCHANGED failures
         ELSE /\ th' = [EndCall(t, th[t].cur, Raised(c, "AttributeError"))
                          EXCEPT ![t].data = NoData]
              /\ failures' = failures + CountedBy("AttributeError")

\* `with open(self.storage_path, "w")`: the file is truncated; the dict to dump is
\* built from the registry as it is now.
SaveOpen(t) ==
    /\ th[t].pc = "save_open"
    /\ file' = [kind |-> "truncated", data |-> NoData]
    /\ th' = [th EXCEPT ![t].pc = "save_write", ![t].data = RegistryDict,
                        ![t].writes = @ + 1]
    /\ UNCHANGED <<outside, now, aiohttp, manager, heap, webhooks, failures, posts, succ, saveFailedEver>>

\* open() raises OSError (path not writable): the file is left as it was. A
\* manager operation lets it propagate; send_to_webhook catches it.
SaveOpenFails(t) ==
    /\ th[t].pc = "save_open"
    /\ saveFailedEver' = TRUE
    /\ IF th[t].cur = 0
       THEN /\ th' = Done(t, Ret("OSError", <<>>))
            /\ UNCHANGED failures
       ELSE /\ th' = EndCall(t, th[t].cur,
                        Raised([Cur(t) EXCEPT !.saveFailed = TRUE], "OSError"))
            /\ failures' = failures + CountedBy("OSError")
    /\ UNCHANGED <<outside, now, aiohttp, manager, heap, webhooks, file, posts, succ>>

\* json.dump and the close of the file: the dict built at open time is written.
SaveWrite(t) ==
    /\ th[t].pc = "save_write"
    /\ file' = [kind |-> "json", data |-> th[t].data]
    /\ AfterSave(t)
    /\ UNCHANGED <<outside, now, aiohttp, manager, heap, webhooks, posts, succ, saveFailedEver>>

(* ----------------------------- WebhookSender --------------------------- *)

\* server.test_webhook: get_webhook, then asyncio.run(send_to_webhook(webhook, ...)).
test_webhook(t, id) ==
    /\ CanStart(t)
    /\ th' = IF webhooks[id] = 0
             THEN [Begin(t, "test", id) EXCEPT ![t].pc = "done", ![t].ret = Ret("http404", <<>>)]
             ELSE [Begin(t, "test", id) EXCEPT ![t].pc = "loop",
                             ![t].calls = <<NewCall(webhooks[id])>>]
    /\ UNCHANGED <<outside, now, aiohttp, manager, heap, webhooks, file, failures, posts, succ, saveFailedEver>>

\* send_to_all up to `await asyncio.gather(*tasks)`: the enabled webhooks are
\* read from the registry, one coroutine is made for each.
send_to_all(t) ==
    /\ CanStart(t)
    /\ LET snap == enabled_webhooks
           ids == {i \in Ids : webhooks[i] # 0 /\ heap[webhooks[i]].enabled}
       IN th' = IF snap = <<>>
                THEN [Begin(t, "send_all", 0) EXCEPT ![t].pc = "done", ![t].ret = Ret("map", <<>>),
                                                      ![t].snapIds = ids]
                ELSE [Begin(t, "send_all", 0) EXCEPT ![t].pc = "loop",
                                ![t].snapIds = ids,
                                ![t].calls = [k \in 1..Len(snap) |-> NewCall(snap[k])]]
    /\ UNCHANGED <<outside, now, aiohttp, manager, heap, webhooks, file, failures, posts, succ, saveFailedEver>>

\* The event loop runs the first step of the next coroutine, in list order:
\* send_to_webhook from its entry to the await of session.post (the disabled
\* check, the payload, `import aiohttp`, the request).
CallStart(t) ==
    /\ th[t].pc = "loop"
    /\ \E i \in 1..Len(th[t].calls) :
         /\ th[t].calls[i].st = "new"
         /\ \A j \in 1..(i - 1) : th[t].calls[j].st # "new"
         /\ LET c == [th[t].calls[i] EXCEPT !.wasEnabled = heap[th[t].calls[i].w].enabled] IN
            IF SkipsDisabled(c.w)
            THEN /\ th' = EndCall(t, i, [c EXCEPT !.result = "false"])
                 /\ UNCHANGED <<posts, failures>>
            ELSE IF TemplateEffect(heap[c.w].payload_template) = "raise"
            THEN /\ th' = EndCall(t, i, Raised(c, "TypeError"))
                 /\ failures' = failures + CountedBy("TypeError")
                 /\ UNCHANGED posts
            ELSE IF ~aiohttp
            THEN \* except ImportError: count a failure, return False
                 /\ th' = EndCall(t, i, [c EXCEPT !.result = "false", !.counted = @ + 1])
                 /\ failures' = failures + 1
                 /\ UNCHANGED posts
            ELSE /\ posts < MaxPosts
                 /\ posts' = posts + 1
                 /\ th' = [th EXCEPT ![t].calls[i] =
                                       [c EXCEPT !.st = "await", !.posted = TRUE,
                                                 !.body = Body(heap[c.w].payload_template)],
                                     ![t].myPosts = @ + 1]
                 /\ UNCHANGED failures
    /\ UNCHANGED <<outside, now, aiohttp, manager, heap, webhooks, file, succ, saveFailedEver>>

\* Mutant: a coroutine is resumed while another is between two awaits.
AtAwait_Any(t) == TRUE

\* The event loop of thread t has control: the coroutine that ran last has
\* reached an await or returned.  send_to_webhook has no await between the
\* answer of the POST and its return.
AtAwait(t) == th[t].pc = "loop"

\* The POST of call i completes with outcome o, once every coroutine has
\* reached its await.  A success status enters the success branch; any other
\* status, a timeout or a transport exception counts a failure and returns False.
CallResume(t, i, o) ==
    /\ AtAwait(t)
    /\ i \in 1..Len(th[t].calls)
    /\ \A j \in 1..Len(th[t].calls) : th[t].calls[j].st # "new"
    /\ th[t].calls[i].st = "await"
    /\ LET c == [th[t].calls[i] EXCEPT !.answer = Answer(o)] IN
       IF IsSuccess(o)
       THEN /\ th' = [th EXCEPT ![t].calls[i] = [c EXCEPT !.st = "run"],
                                ![t].cur = i, ![t].pc = "inc_load"]
            /\ succ' = [succ EXCEPT ![c.w] = @ + 1]
            /\ UNCHANGED failures
       ELSE /\ th' = EndCall(t, i,
                       CASE o.kind = "timeout" -> Raised(c, "TimeoutError")
                         [] o.kind = "exception" -> Raised(c, "ClientError")
                         [] OTHER -> [c EXCEPT !.result = "false", !.counted = @ + 1])
            /\ failures' = failures +
                       (CASE o.kind = "timeout" -> CountedBy("TimeoutError")
                          [] o.kind = "exception" -> CountedBy("ClientError")
                          [] OTHER -> 1)
            /\ UNCHANGED succ
    /\ UNCHANGED <<outside, now, aiohttp, manager, heap, webhooks, file, posts, saveFailedEver>>

\* `webhook.last_triggered_at = datetime.utcnow().isoformat()` and the load of
\* `webhook.trigger_count += 1`.
IncLoad(t) ==
    /\ th[t].pc = "inc_load"
    /\ heap' = [heap EXCEPT ![Cur(t).w].last_triggered_at = now]
    /\ UNCHANGED <<outside, now, aiohttp, manager>>
    /\ th' = [th EXCEPT ![t].calls[th[t].cur].tcRead = heap[Cur(t).w].trigger_count,
                        ![t].pc = "inc_store"]
    /\ UNCHANGED <<webhooks, file, failures, posts, succ, saveFailedEver>>

\* The store of `webhook.trigger_count += 1`; next is self.manager._save_webhooks().
IncStore(t) ==
    /\ th[t].pc = "inc_store"
    /\ heap' = [heap EXCEPT ![Cur(t).w].trigger_count = Incremented(Cur(t).tcRead)]
    /\ th' = [th EXCEPT ![t].calls[th[t].cur].stored = TRUE, ![t].pc = "save_open"]
    /\ UNCHANGED <<outside, now, aiohttp, manager, webhooks, file, failures, posts, succ, saveFailedEver>>

\* gather has every result (or re-raises a coroutine's exception): send_to_all
\* builds its map, test_webhook its HTTP answer.
Finish(t) ==
    /\ th[t].pc = "loop"
    /\ \A j \in 1..Len(th[t].calls) : th[t].calls[j].st = "done"
    /\ LET cs == th[t].calls
           raised == \E j \in 1..Len(cs) : cs[j].result = "raised"
       IN th' = Done(t,
                  IF th[t].op = "send_all"
                  THEN IF raised THEN Ret("raised", <<>>) ELSE Ret("map", Results(cs))
                  ELSE IF raised THEN Ret("http500", <<>>)
                       ELSE IF cs[1].result = "true" THEN Ret("http200", <<>>)
                       ELSE Ret("http500", <<>>))
    /\ UNCHANGED <<outside, now, aiohttp, manager, heap, webhooks, file, failures, posts, succ, saveFailedEver>>

(* --------------------------- specification ----------------------------- *)

\* A request handler thread serves one /api/webhooks request at a time.
HandlerStep(t) ==
    \/ \E id \in Ids : create_webhook(t, id, "n", WebhookType("generic"), "u", {}, NoTemplate)
    \/ \E id \in Ids, en \in {{}, {TRUE}, {FALSE}} :
           update_webhook(t, id, {}, {}, en, {}, {})
    \/ \E id \in Ids : delete_webhook(t, id)
    \/ \E id \in Ids : toggle_webhook(t, id)
    \/ \E id \in Ids : test_webhook(t, id)

\* A pipeline thread delivers one digest at a time.
PipelineStep(t) == send_to_all(t)

\* The steps of an operation in progress, in either kind of thread.
Continue(t) ==
    \/ CallStart(t)
    \/ \E i \in 1..MaxIds, o \in Outcomes : CallResume(t, i, o)
    \/ IncLoad(t)
    \/ IncStore(t)
    \/ SaveOpen(t)
    \/ SaveOpenFails(t)
    \/ SaveWrite(t)
    \/ Finish(t)

Next ==
    \/ \E t \in Handlers : HandlerStep(t)
    \/ \E t \in Pipelines : PipelineStep(t)
    \/ \E t \in Threads : Continue(t)

Spec == Init /\ [][Next]_vars

(* ------------------- construction, one client at a time ---------------- *)

\* No thread has an operation in progress.
Quiescent == \A t \in Threads : th[t].pc \in {"idle", "done"}

\* _load_webhooks: the exception that leaves it, "none" when it returns.  Only
\* FileNotFoundError is caught.  An empty file (left by a process that ended
\* between the open and the dump of _save_webhooks) and a text that is not JSON
\* make json.load raise; a JSON array has no .items(); a record whose type is
\* no WebhookType value makes from_dict raise.
load_raises(f) ==
    CASE f.kind = "missing" -> "none"
      [] f.kind = "denied" -> "PermissionError"
      [] f.kind \in {"truncated", "text"} -> "JSONDecodeError"
      [] f.kind = "array" -> "AttributeError"
      [] OTHER -> IF \E i \in Ids : f.data[i] # Absent /\ from_dict(f.data[i]).type = "ValueError"
                  THEN "ValueError" ELSE "none"

\* _load_webhooks: the records it builds from the file.
load_records(f) ==
    IF f.kind = "json"
    THEN [i \in Ids |-> IF f.data[i] = Absent THEN Absent ELSE from_dict(f.data[i])]
    ELSE NoData

\* WebhookManager.__init__ (the module singleton of server.py).
WebhookManager_init ==
    /\ manager = "none"
    /\ LET exc == load_raises(file)
           recs == load_records(file)
           order == SortedIds({i \in Ids : recs[i] # Absent})
       IN IF exc # "none"
          THEN /\ manager' = exc
               /\ UNCHANGED <<heap, webhooks>>
          ELSE /\ manager' = "ready"
               /\ heap' = [k \in 1..Len(order) |-> recs[order[k]]]
               /\ webhooks' = [i \in Ids |->
                                IF recs[i] # Absent
                                THEN CHOOSE k \in 1..Len(order) : order[k] = i ELSE 0]
    /\ UNCHANGED <<outside, now, aiohttp, file, failures, posts, succ, saveFailedEver, th>>

\* Records an earlier run of the program can have written for id i.
StoredRecords(i) ==
    {to_dict([Webhook(i, "n", WebhookType(ty), "u", {}, tm, 0) EXCEPT !.enabled = en]) :
        ty \in {"generic"}, en \in BOOLEAN, tm \in {NoTemplate}}

\* What the program can find at storage_path when it starts.
StartFiles ==
    {[kind |-> k, data |-> NoData] : k \in {"missing", "denied", "truncated", "text", "array"}}
      \cup {[kind |-> "json", data |-> d] :
                d \in {e \in [Ids -> UNION {StoredRecords(i) : i \in Ids} \cup {Absent}] :
                          \A i \in Ids : e[i] \in StoredRecords(i) \cup {Absent}}}

\* The process starts: nothing is constructed yet.
InitSeq ==
    /\ now = 1
    /\ aiohttp \in BOOLEAN
    /\ manager = "none"
    /\ heap = <<>>
    /\ webhooks = [i \in Ids |-> 0]
    /\ file \in StartFiles
    /\ failures = 0
    /\ posts = 0
    /\ succ = [a \in Addrs |-> 0]
    /\ saveFailedEver = FALSE
    /\ th = [t \in Threads |-> IdleThread]
    /\ env = NoEnv
    /\ run = [t \in Pipelines |-> IdleRun]
    /\ direct = NoDirect
    /\ build = NoBuild

\* The operations begun so far, over all threads.
RECURSIVE OpsBegun(_)
OpsBegun(ts) ==
    IF ts = {} THEN 0
    ELSE LET t == CHOOSE x \in ts : TRUE IN th[t].n + OpsBegun(ts \ {t})

\* One more operation may begin: none is in progress.
SeqCanStart == Quiescent /\ OpsBegun(Threads) < MaxSeqOps

\* A client that waits for each answer before its next request.
SeqHandlerStep(t) ==
    /\ SeqCanStart
    /\ \/ \E id \in Ids, ty \in WebhookTypes, hd \in {{}, {{"X-Key"}}},
              tm \in {NoTemplate, TemplateObject, TemplateArray, TemplateInvalid} :
              create_webhook(t, id, "m", WebhookType(ty), "v", hd, tm)
       \/ \E id \in Ids, nm \in {{}, {"m"}}, url \in {{}, {"v"}},
              en \in {{}, {TRUE}, {FALSE}}, hd \in {{}, {{}}, {{"X-Key"}}},
              tm \in {{}, {TemplateObject}, {TemplateArray}} :
              update_webhook(t, id, nm, url, en, hd, tm)
       \/ \E id \in Ids : delete_webhook(t, id)
       \/ \E id \in Ids : toggle_webhook(t, id)
       \/ \E id \in Ids : test_webhook(t, id)

\* A pipeline run started when no request is being served.
SeqPipelineStep(t) == SeqCanStart /\ send_to_all(t)

NextSeq ==
    \/ WebhookManager_init
    \/ \E t \in Handlers : SeqHandlerStep(t)
    \/ \E t \in Pipelines : SeqPipelineStep(t)
    \/ \E t \in Threads : Continue(t)

SpecSeq == InitSeq /\ [][NextSeq]_vars

(* ------------------- one pipeline run and its channels ----------------- *)

\* Thread t has a finished send_to_all in its record.
SendAllDone(t) == th[t].op = "send_all" /\ th[t].pc = "done"

\* str.strip(), over the values the environment takes here.
strip(s) == IF s = " " THEN "" ELSE s

\* Whether int(text) raises ValueError.
int_raises(text) == text \notin {"25", "587"}

\* int(os.getenv("SMTP_PORT") or 587), the second statement of send_email,
\* raises for a port that is set and is no number.
PortRaises(e) == e.SMTP_PORT # "" /\ int_raises(e.SMTP_PORT)

\* What the awaited network send of a channel can end in.
NetOutcomes == {"sent", "error"}

\* The try block of send_email and send_telegram: the success counter and True,
\* or the exception caught, delivery_failures_total incremented and False.
Attempt(net) == IF net = "sent" THEN Sent("True", TRUE, 0) ELSE Sent("False", TRUE, 1)

\* delivery.send_email under environment e.
send_email(e, net) ==
    IF PortRaises(e) THEN Sent("ValueError", FALSE, 0)
    ELSE IF e.SMTP_HOST = "" THEN Sent("False", FALSE, 0)
    ELSE Attempt(net)

\* delivery.send_telegram(text, chat_id) under environment e.
send_telegram(e, chat_id, net) ==
    LET chat == IF chat_id # "" THEN chat_id ELSE e.TELEGRAM_CHAT_ID
    IN IF e.TELEGRAM_TOKEN = "" \/ chat = "" THEN Sent("False", FALSE, 0)
       ELSE Attempt(net)

\* Mutant: an exception that leaves a channel leaves the run.
AfterChannel_Propagates(res, next) == IF res.ret \in {"True", "False", "none"} THEN next ELSE "raised"

\* `try: await channel(...) except Exception: logger.error(...)` in Pipeline.run:
\* whatever the channel came to, the run goes on with the next phase.
AfterChannel(res, next) == next

\* Pipeline.run(deliver) up to the delivery phase (lines 34-89): ingest, write
\* out/digest.json, format.  An exception there (`ok` false) is re-raised by
\* the outer handler; no channel has been reached.
Pipeline_run(t, deliver, ok) ==
    /\ run[t].phase = "idle"
    /\ th[t].op = "idle"
    /\ direct = NoDirect
    /\ run' = [run EXCEPT ![t].deliver = deliver,
                          ![t].phase = IF ~ok THEN "done" ELSE IF deliver THEN "email" ELSE "end",
                          ![t].ret = IF ~ok THEN "raised" ELSE "none"]
    /\ UNCHANGED <<env, direct, build, now, aiohttp, manager, heap, webhooks, file, failures,
                   posts, succ, saveFailedEver, th>>

\* Lines 91-125 of Pipeline.run: the email channel.
EmailPhase(t, net) ==
    /\ run[t].phase = "email"
    /\ LET called == strip(env.DELIVERY_EMAIL) # ""
           res == IF called THEN send_email(env, net) ELSE NotCalled
       IN /\ run' = [run EXCEPT ![t].email = res,
                                ![t].emails = @ + (IF called THEN 1 ELSE 0),
                                ![t].phase = AfterChannel(res, "telegram")]
          /\ failures' = failures + res.counted
    /\ UNCHANGED <<env, direct, build, now, aiohttp, manager, heap, webhooks, file,
                   posts, succ, saveFailedEver, th>>

\* Lines 127-156 of Pipeline.run: the Telegram channel (chat_id not passed).
TelegramPhase(t, net) ==
    /\ run[t].phase = "telegram"
    /\ LET called == strip(env.TELEGRAM_CHAT_ID) # ""
           res == IF called THEN send_telegram(env, "", net) ELSE NotCalled
       IN /\ run' = [run EXCEPT ![t].telegram = res,
                                ![t].telegrams = @ + (IF called THEN 1 ELSE 0),
                                ![t].phase = AfterChannel(res, "webhooks")]
          /\ failures' = failures + res.counted
    /\ UNCHANGED <<env, direct, build, now, aiohttp, manager, heap, webhooks, file,
                   posts, succ, saveFailedEver, th>>

\* Line 164 of Pipeline.run: the one call of send_to_all.
WebhooksPhase(t) ==
    /\ run[t].phase = "webhooks"
    /\ th[t].op = "idle"
    /\ send_to_all(t)

\* The run ends: lines 169-188 after send_to_all came back (an exception of
\* send_to_all is logged at 178-183), or line 185 when deliver is false.
RunEnd(t) ==
    /\ \/ run[t].phase = "end"
       \/ run[t].phase = "webhooks" /\ SendAllDone(t)
    /\ run' = [run EXCEPT ![t].phase = "done", ![t].ret = "None"]
    /\ UNCHANGED <<env, direct, build, now, aiohttp, manager, heap, webhooks, file, failures,
                   posts, succ, saveFailedEver, th>>

\* send_email_sync(...), called on its own.
send_email_sync(net) ==
    /\ direct = NoDirect
    /\ \A t \in Pipelines : run[t].phase = "idle"
    /\ LET res == send_email(env, net)
       IN /\ direct' = [fn |-> "send_email", chat_id |-> "", res |-> res]
          /\ failures' = failures + res.counted
    /\ UNCHANGED <<env, run, build, now, aiohttp, manager, heap, webhooks, file,
                   posts, succ, saveFailedEver, th>>

\* send_telegram_sync(text, chat_id), called on its own.
send_telegram_sync(chat_id, net) ==
    /\ direct = NoDirect
    /\ \A t \in Pipelines : run[t].phase = "idle"
    /\ LET res == send_telegram(env, chat_id, net)
       IN /\ direct' = [fn |-> "send_telegram", chat_id |-> chat_id, res |-> res]
          /\ failures' = failures + res.counted
    /\ UNCHANGED <<env, run, build, now, aiohttp, manager, heap, webhooks, file,
                   posts, succ, saveFailedEver, th>>

\* The environments the process can be started in.
Envs ==
    {Env(email, chat, host, port, token) :
        email \in {"", " ", "to@example.com"}, chat \in {"", " ", "123456789"},
        host \in {"", "smtp.example.com"}, port \in {"", "587", "smtp"},
        token \in {"", "token"}}

\* The process has started in some environment, with a registry loaded from a
\* file an earlier run wrote; aiohttp is installed.
InitRun ==
    /\ now = 1
    /\ aiohttp = TRUE
    /\ manager = "ready"
    /\ \E present \in SUBSET Ids : \E en \in [present -> BOOLEAN] :
         LET order == SortedIds(present)
         IN /\ heap = [k \in 1..Len(order) |->
                         [Webhook(order[k], "n", WebhookType("generic"), "u", {}, NoTemplate, 0)
                            EXCEPT !.enabled = en[order[k]]]]
            /\ webhooks = [i \in Ids |->
                         IF i \in present
                         THEN CHOOSE k \in 1..Len(order) : order[k] = i ELSE 0]
    /\ file = [kind |-> IF webhooks = [i \in Ids |-> 0] THEN "missing" ELSE "json",
               data |-> RegistryDict]
    /\ failures = 0
    /\ posts = 0
    /\ succ = [a \in Addrs |-> 0]
    /\ saveFailedEver = FALSE
    /\ th = [t \in Threads |-> IdleThread]
    /\ env \in Envs
    /\ run = [t \in Pipelines |-> IdleRun]
    /\ direct = NoDirect
    /\ build = NoBuild

NextRun ==
    \/ \E t \in Pipelines, deliver \in BOOLEAN, ok \in BOOLEAN : Pipeline_run(t, deliver, ok)
    \/ \E t \in Pipelines, net \in NetOutcomes : EmailPhase(t, net)
    \/ \E t \in Pipelines, net \in NetOutcomes : TelegramPhase(t, net)
    \/ \E t \in Pipelines : WebhooksPhase(t)
    \/ \E t \in Pipelines : Continue(t)
    \/ \E t \in Pipelines : RunEnd(t)
    \/ \E net \in NetOutcomes : send_email_sync(net)
    \/ \E chat_id \in {"", "123456789"}, net \in NetOutcomes : send_telegram_sync(chat_id, net)

SpecRun == InitRun /\ [][NextRun]_vars

(* --------------------------- payload builders -------------------------- *)

\* The longest content built here.
MaxContent == 503

\* The 500 of content[:500].
Cut == 500

\* Mutant: a cut content ends in "...".
Slice_Marker(s, n) == IF Len(s) <= n THEN s ELSE SubSeq(s, 1, n - 3) \o <<46, 46, 46>>

\* Python's s[:n] for n >= 0.
Slice(s, n) == SubSeq(s, 1, IF Len(s) < n THEN Len(s) ELSE n)

\* _build_slack_payload: blocks[1].text.text is f"*{title}*\n{content[:500]}".
build_slack_payload ==
    /\ build.type = "slack" /\ ~build.built
    /\ build' = [build EXCEPT !.built = TRUE,
                     !.text = <<42>> \o build.title \o <<42, 10>> \o Slice(build.content, Cut)]
    /\ UNCHANGED <<env, run, direct, now, aiohttp, manager, heap, webhooks, file, failures,
                   posts, succ, saveFailedEver, th>>

\* _build_discord_payload: embeds[0].description is content[:500].
build_discord_payload ==
    /\ build.type = "discord" /\ ~build.built
    /\ build' = [build EXCEPT !.built = TRUE, !.text = Slice(build.content, Cut)]
    /\ UNCHANGED <<env, run, direct, now, aiohttp, manager, heap, webhooks, file, failures,
                   posts, succ, saveFailedEver, th>>

\* _build_generic_payload: "content" is content.
build_generic_payload ==
    /\ build.type = "generic" /\ ~build.built
    /\ build' = [build EXCEPT !.built = TRUE, !.text = build.content]
    /\ UNCHANGED <<env, run, direct, now, aiohttp, manager, heap, webhooks, file, failures,
                   posts, succ, saveFailedEver, th>>

\* Contents of every length up to MaxContent; the code point at position k
\* tells k, so that a payload shows which positions it kept.
Contents == {[k \in 1..n |-> base + k] : n \in 0..MaxContent, base \in {1000, 2000}}

\* A builder is about to be called for a webhook of some type.
InitPayload ==
    /\ now = 1
    /\ aiohttp = TRUE
    /\ manager = "ready"
    /\ heap = <<>>
    /\ webhooks = [i \in Ids |-> 0]
    /\ file = [kind |-> "missing", data |-> NoData]
    /\ failures = 0
    /\ posts = 0
    /\ succ = [a \in Addrs |-> 0]
    /\ saveFailedEver = FALSE
    /\ th = [t \in Threads |-> IdleThread]
    /\ env = NoEnv
    /\ run = [t \in Pipelines |-> IdleRun]
    /\ direct = NoDirect
    /\ \E ty \in WebhookTypes, c \in Contents :
           build = [NoBuild EXCEPT !.type = ty, !.title = <<68>>, !.content = c]

NextPayload ==
    \/ build_slack_payload
    \/ build_discord_payload
    \/ build_generic_payload

SpecPayload == InitPayload /\ [][NextPayload]_vars

(* ------------------------------- claims -------------------------------- *)

\* The send_to_webhook calls thread t has made in its current operation.
CallIdx(t) == 1..Len(th[t].calls)

\* C1: every send_to_webhook call whose POST was answered 200, 201 or 204 (and
\* whose save did not fail) returns True and is not counted as a failure.
C1_Claim ==
    \A t \in Threads : \A k \in CallIdx(t) :
        LET c == th[t].calls[k] IN
        (c.st = "done" /\ c.answer = "accepted" /\ ~c.saveFailed)
            => (c.result = "true" /\ c.counted = 0)

\* C2: a call changes trigger_count and last_triggered_at of its record iff the
\* answer was 200, 201 or 204, and then it stores exactly the count it loaded
\* plus 1 and the current time; no other step of the sender changes them.
C2_Iff ==
    \A t \in Threads : \A k \in CallIdx(t) :
        LET c == th[t].calls[k] IN
        c.st = "done" => (c.stored <=> c.answer = "accepted")

C2_Step ==
    \A a \in 1..Len(heap) :
        (\/ heap'[a].trigger_count # heap[a].trigger_count
         \/ heap'[a].last_triggered_at # heap[a].last_triggered_at)
        => \E t \in Threads :
              /\ th[t].cur # 0
              /\ Cur(t).w = a
              /\ Cur(t).answer = "accepted"
              /\ heap'[a].last_triggered_at = now
              /\ \/ heap'[a].trigger_count = heap[a].trigger_count
                 \/ /\ heap'[a].trigger_count = Cur(t).tcRead + 1
                    /\ th'[t].calls[th[t].cur].stored /\ ~Cur(t).stored

C2_Thm == []C2_Iff /\ [][C2_Step]_vars

C2_Witness ==
    \E t \in Threads : \E k \in CallIdx(t) :
        LET c == th[t].calls[k] IN
        /\ c.st = "done" /\ c.answer = "accepted" /\ c.stored
        /\ heap[c.w].trigger_count = 1
        /\ heap[c.w].last_triggered_at = now

\* C3: a send_to_all over N >= 2 enabled webhooks, all POSTed, one of which
\* timed out or was unreachable while the others answered 200/201/204, returns
\* a map of N entries of which exactly one is false.
C3_Claim ==
    \A t \in Threads :
        LET cs == th[t].calls
            bad == {k \in CallIdx(t) : cs[k].answer \in {"timeout", "exception"}}
            good == {k \in CallIdx(t) : cs[k].answer = "accepted" /\ ~cs[k].saveFailed}
        IN (/\ SendAllDone(t)
            /\ Len(cs) >= 2
            /\ \A k \in CallIdx(t) : cs[k].posted
            /\ Cardinality(bad) = 1
            /\ bad \cup good = CallIdx(t))
           => /\ th[t].ret.kind = "map"
              /\ Cardinality(DOMAIN th[t].ret.map) = Len(cs)
              /\ Cardinality({i \in DOMAIN th[t].ret.map : ~th[t].ret.map[i]}) = 1

\* C4: the map a send_to_all returns has exactly the ids that were enabled when
\* it read the registry as its keys, whatever happened while it was in flight.
C4_Thm ==
    \A t \in Threads :
        SendAllDone(t) =>
            /\ th[t].ret.kind = "map"
            /\ DOMAIN th[t].ret.map = th[t].snapIds

\* A send_to_all returned an entry for a webhook that was deleted meanwhile.
C4_Witness ==
    \E t \in Threads :
        /\ SendAllDone(t)
        /\ \E i \in th[t].snapIds : webhooks[i] = 0
        /\ \E i \in th[t].snapIds : webhooks[i] # 0

\* C5: every webhook in the snapshot of a send_to_all is POSTed to, also when
\* it is toggled after the snapshot and before its delivery starts.
C5_Claim ==
    \A t \in Threads :
        (aiohttp /\ th[t].op = "send_all") =>
            \A k \in CallIdx(t) : th[t].calls[k].st = "done" => th[t].calls[k].posted

\* C6: a send_to_all always ends by returning a map of booleans, never by
\* raising, whatever became of its deliveries.
C6_Thm ==
    \A t \in Threads :
        /\ \A k \in CallIdx(t) : th[t].calls[k].result # "raised"
        /\ SendAllDone(t) =>
             /\ th[t].ret.kind = "map"
             /\ \A i \in DOMAIN th[t].ret.map : th[t].ret.map[i] \in BOOLEAN

\* A send_to_all of two deliveries returned with every delivery failed: one by
\* a failed save, the other by a timeout, a transport exception or a status.
C6_Witness ==
    \E t \in Threads :
        /\ SendAllDone(t)
        /\ Len(th[t].calls) = 2
        /\ \A i \in DOMAIN th[t].ret.map : ~th[t].ret.map[i]
        /\ \E k \in CallIdx(t) : th[t].calls[k].saveFailed
        /\ \E k \in CallIdx(t) : th[t].calls[k].answer \in {"timeout", "exception", "rejected"}

\* Thread t is inside _save_webhooks: the file is open for writing.
Saving(t) == th[t].pc = "save_write"

\* Thread t has changed the registry in memory and has not yet saved it.
Mutating(t) == th[t].pc \in {"inc_store", "save_open"}

\* C7: no two threads are inside _save_webhooks at once, and none is inside it
\* while another is between its change of the registry and its save.
C7_Claim ==
    \A t, u \in Threads :
        (t # u /\ Saving(t)) => ~(Saving(u) \/ Mutating(u))

\* C8: once every operation has finished (and no save has failed), each
\* registered webhook's trigger_count, in memory and in the file, is the
\* number of 200/201/204 responses received for it.
C8_Claim ==
    (Quiescent /\ ~saveFailedEver) =>
        \A i \in Ids :
            webhooks[i] # 0 =>
                /\ heap[webhooks[i]].trigger_count = succ[webhooks[i]]
                /\ succ[webhooks[i]] > 0 =>
                     /\ file.kind = "json"
                     /\ file.data[i] # Absent
                     /\ file.data[i].trigger_count = succ[webhooks[i]]

\* C9: a send_to_webhook call that finds its webhook disabled returns False
\* and issues no HTTP request.
C9_Thm ==
    \A t \in Threads : \A k \in CallIdx(t) :
        LET c == th[t].calls[k] IN
        (c.st = "done" /\ ~c.wasEnabled) => (c.result = "false" /\ ~c.posted)

C9_Witness ==
    \E t \in Threads : \E k \in CallIdx(t) :
        LET c == th[t].calls[k] IN
        c.st = "done" /\ ~c.wasEnabled /\ th[t].op = "test" /\ th[t].ret.kind = "http500"

\* C10: a send_to_all that finds no enabled webhook returns the empty map and
\* makes no HTTP request and no write of the registry.
C10_Thm ==
    \A t \in Threads :
        (SendAllDone(t) /\ th[t].snapIds = {}) =>
            /\ th[t].ret = Ret("map", <<>>)
            /\ th[t].myPosts = 0
            /\ th[t].writes = 0
            /\ th[t].calls = <<>>

\* A send_to_all returned while the registry held webhooks, all disabled.
C10_Witness ==
    \E t \in Threads :
        /\ SendAllDone(t) /\ th[t].snapIds = {}
        /\ \E i \in Ids : webhooks[i] # 0
        /\ \A i \in Ids : webhooks[i] # 0 => ~heap[webhooks[i]].enabled

\* C11: send_to_webhook tells success from failure by the status alone: a call
\* whose POST was made (and whose save did not fail) returns True exactly when
\* the answer was 200, 201 or 204, and False for any other status, a timeout
\* or a transport exception.
C11_Claim ==
    \A t \in Threads : \A k \in CallIdx(t) :
        LET c == th[t].calls[k] IN
        (c.st = "done" /\ c.posted /\ ~c.saveFailed)
            => (c.result = "true" <=> c.answer = "accepted")

\* The calls of thread t that issued their POST.
Posted(t) == {k \in CallIdx(t) : th[t].calls[k].posted}

\* C12: delivery is single-attempt.  A call issues at most one POST; a call that
\* fails in any way (status, timeout, transport exception, template, missing
\* aiohttp, failed save, failed metric) returns False and is counted exactly
\* once, in the call and in the failure counter; a finished call is never
\* taken up again; a send_to_all makes one call per snapshot entry.
C12_Inv ==
    \A t \in Threads :
        /\ th[t].myPosts = Cardinality(Posted(t))
        /\ th[t].op = "send_all" => Len(th[t].calls) = Cardinality(th[t].snapIds)
        /\ \A k \in CallIdx(t) :
             LET c == th[t].calls[k] IN
             /\ c.counted <= 1
             /\ (c.st = "done" /\ c.wasEnabled) =>
                    /\ c.result \in {"true", "false"}
                    /\ c.result = "false" <=> c.counted = 1
             /\ (c.st = "done" /\ c.answer \in {"rejected", "timeout", "exception"}) =>
                    (c.result = "false" /\ c.counted = 1)
             /\ (c.st = "done" /\ ~c.wasEnabled) => c.counted = 0

C12_Step ==
    /\ failures' \in {failures, failures + 1}
    /\ failures' = failures + 1 <=>
         \E t \in Threads : \E k \in CallIdx(t) :
             /\ k \in DOMAIN th'[t].calls
             /\ th[t].calls[k].st # "done"
             /\ th'[t].calls[k].st = "done"
             /\ th'[t].calls[k].counted = 1
    /\ \A t \in Threads : \A k \in CallIdx(t) :
         (th[t].calls[k].st = "done" /\ th'[t].op = th[t].op /\ th'[t].n = th[t].n)
             => th'[t].calls[k] = th[t].calls[k]
    /\ posts' \in {posts, posts + 1}

C12_Thm == []C12_Inv /\ [][C12_Step]_vars

\* A send_to_all of two deliveries, both POSTed once, both failed and counted.
C12_Witness ==
    \E t \in Threads :
        /\ SendAllDone(t)
        /\ Len(th[t].calls) = 2
        /\ th[t].myPosts = 2
        /\ failures = 2
        /\ \A k \in CallIdx(t) : th[t].calls[k].counted = 1 /\ th[t].calls[k].result = "false"
        /\ \E k \in CallIdx(t) : th[t].calls[k].answer = "rejected"

(* ---- claims about one client's operations, checked under SpecSeq ------- *)

\* Thread t begins operation `op` in this step.
Begins(t, op) == th'[t].op = op /\ th'[t].n = th[t].n + 1

\* Thread t's operation `op` returns in this step.
Returns(t, op) == th[t].op = op /\ th[t].pc # "done" /\ th'[t].op = op /\ th'[t].pc = "done"

\* get_webhook(id) in the state after the step.
GetAfter(id) == IF webhooks'[id] = 0 THEN Absent ELSE heap'[webhooks'[id]]

\* The value of an optional argument (given as {v}).
The(opt) == CHOOSE v \in opt : TRUE

\* C13: create with an id the registry holds fails with ValueError ("already
\* exists") and changes no record, not the registry and not the file.
C13_Step ==
    \A t \in Threads :
        (Begins(t, "create") /\ webhooks[th'[t].id] # 0) =>
            /\ th'[t].pc = "done"
            /\ th'[t].ret.kind = "ValueError"
            /\ heap' = heap
            /\ webhooks' = webhooks
            /\ file' = file

C13_Thm == [][C13_Step]_vars

\* A create was refused for an id whose record is disabled, has been triggered
\* once and differs from the record asked for.
C13_Witness ==
    \E t \in Threads :
        /\ th[t].op = "create" /\ th[t].pc = "done" /\ th[t].ret.kind = "ValueError"
        /\ get_webhook(th[t].id) # Absent
        /\ get_webhook(th[t].id).name # The(th[t].args.name)
        /\ get_webhook(th[t].id).trigger_count = 1

\* C14: when a create returns normally, get_webhook(id) gives a record with the
\* id, name, type, url, headers (empty when none were given) and
\* payload_template of the call, enabled, never triggered, count 0.
C14_Step ==
    \A t \in Threads :
        (Returns(t, "create") /\ th'[t].ret.kind = "ok") =>
            LET a == th[t].args
                w == GetAfter(th[t].id)
            IN /\ w # Absent
               /\ w.id = th[t].id
               /\ w.name = The(a.name)
               /\ w.type = The(a.type)
               /\ w.url = The(a.url)
               /\ w.headers = (IF a.headers = {} THEN {} ELSE The(a.headers))
               /\ w.payload_template = The(a.payload_template)
               /\ w.enabled = TRUE
               /\ w.trigger_count = 0
               /\ w.last_triggered_at = NoTime
               /\ w.created_at = now /\ w.updated_at = now

C14_Thm == [][C14_Step]_vars

\* A slack webhook with a header and a template was created beside another.
C14_Witness ==
    \E t \in Threads :
        /\ th[t].op = "create" /\ th[t].pc = "done" /\ th[t].ret.kind = "ok"
        /\ get_webhook(th[t].id).type = WebhookType("slack")
        /\ get_webhook(th[t].id).headers = {"X-Key"}
        /\ get_webhook(th[t].id).payload_template = TemplateObject
        /\ \E i \in Ids : i # th[t].id /\ webhooks[i] # 0

\* C15: a toggle made right after a toggle of the same webhook (nothing else
\* having been asked of the registry in between) gives `enabled` the value the
\* first toggle found; a toggle of an id the registry does not hold fails with
\* ValueError ("not found") and changes nothing.
C15_Step ==
    \A t \in Threads :
        Begins(t, "toggle") =>
            LET id == th'[t].id IN
            /\ webhooks[id] = 0 =>
                 /\ th'[t].pc = "done"
                 /\ th'[t].ret.kind = "ValueError"
                 /\ heap' = heap /\ webhooks' = webhooks /\ file' = file
            /\ (/\ webhooks[id] # 0
                /\ th[t].op = "toggle" /\ th[t].id = id /\ th[t].ret.kind = "ok"
                /\ \A u \in Handlers \ {t} : th[u].n = 0) =>
                 /\ heap'[webhooks[id]].enabled = The(th[t].args.enabled)
                 /\ heap'[webhooks[id]].enabled # heap[webhooks[id]].enabled
                 /\ webhooks' = webhooks

C15_Thm == [][C15_Step]_vars

\* The second of two toggles of one webhook has returned.
C15_Witness ==
    \E t \in Threads :
        /\ th[t].op = "toggle" /\ th[t].pc = "done" /\ th[t].ret.kind = "ok"
        /\ th[t].again
        /\ get_webhook(th[t].id).enabled # The(th[t].args.enabled)

\* What a field holds after an update: the argument if one was given.
Expected(opt, old) == IF opt = {} THEN old ELSE The(opt)

\* C16: update sets name, url, enabled, headers and payload_template to the
\* arguments that are not None, sets updated_at, and leaves every other field
\* of the record, every other record and the set of ids as they were; no later
\* step of the update changes a record; on an id the registry does not hold
\* it fails with ValueError ("not found") and changes nothing.
C16_Step ==
    \A t \in Threads :
        /\ Begins(t, "update") =>
             LET id == th'[t].id
                 a == th'[t].args
             IN /\ webhooks[id] = 0 =>
                     /\ th'[t].pc = "done"
                     /\ th'[t].ret.kind = "ValueError"
                     /\ heap' = heap /\ webhooks' = webhooks /\ file' = file
                /\ webhooks[id] # 0 =>
                     LET w == heap[webhooks[id]]
                         v == heap'[webhooks[id]]
                     IN /\ v.name = Expected(a.name, w.name)
                        /\ v.url = Expected(a.url, w.url)
                        /\ v.enabled = Expected(a.enabled, w.enabled)
                        /\ v.headers = Expected(a.headers, w.headers)
                        /\ v.payload_template = Expected(a.payload_template, w.payload_template)
                        /\ v.updated_at = now
                        /\ v.id = w.id /\ v.type = w.type /\ v.created_at = w.created_at
                        /\ v.trigger_count = w.trigger_count
                        /\ v.last_triggered_at = w.last_triggered_at
                        /\ \A b \in 1..Len(heap) : b # webhooks[id] => heap'[b] = heap[b]
                        /\ Len(heap') = Len(heap)
                        /\ webhooks' = webhooks
        /\ (th[t].op = "update" /\ th[t].pc # "done" /\ th'[t].n = th[t].n) =>
             (heap' = heap /\ webhooks' = webhooks)

C16_Thm == [][C16_Step]_vars

\* An update that gave a name and no url has returned: the record, triggered
\* once before, has the new name and its old url.
C16_Witness ==
    \E t \in Threads :
        /\ th[t].op = "update" /\ th[t].pc = "done" /\ th[t].ret.kind = "ok"
        /\ th[t].args.name = {"m"} /\ th[t].args.url = {} /\ th[t].args.enabled = {}
        /\ get_webhook(th[t].id).name = "m"
        /\ get_webhook(th[t].id).url = "u"
        /\ get_webhook(th[t].id).trigger_count = 1
        /\ get_webhook(th[t].id).updated_at > get_webhook(th[t].id).created_at

\* C17: delete of an id the registry does not hold returns False and changes
\* nothing; of an id it holds, it removes that id and no other, changes no
\* record, and when it returns True get_webhook(id) gives None and the file
\* holds the registry without it.
C17_Step ==
    \A t \in Threads :
        /\ Begins(t, "delete") =>
             LET id == th'[t].id IN
             /\ webhooks[id] = 0 =>
                  /\ th'[t].pc = "done"
                  /\ th'[t].ret.kind = "False"
                  /\ heap' = heap /\ webhooks' = webhooks /\ file' = file
             /\ webhooks[id] # 0 =>
                  /\ th'[t].pc # "done"
                  /\ webhooks'[id] = 0
                  /\ \A i \in Ids \ {id} : webhooks'[i] = webhooks[i]
                  /\ heap' = heap
        /\ Returns(t, "delete") =>
             /\ th'[t].ret.kind \in {"True", "OSError"}
             /\ GetAfter(th[t].id) = Absent
             /\ th'[t].ret.kind = "True" =>
                  /\ file'.kind = "json"
                  /\ file'.data[th[t].id] = Absent
                  /\ \A i \in Ids : (file'.data[i] = Absent) <=> (webhooks'[i] = 0)

C17_Thm == [][C17_Step]_vars

\* A delete returned True and left the other webhook registered and stored.
C17_Witness ==
    \E t \in Threads :
        /\ th[t].op = "delete" /\ th[t].pc = "done" /\ th[t].ret.kind = "True"
        /\ get_webhook(th[t].id) = Absent
        /\ \E i \in Ids : webhooks[i] # 0 /\ file.data[i] # Absent

(* ------------------------- claims about the file ------------------------ *)

\* C18: whenever no operation is in progress (and no save has failed), the
\* file can be loaded and loading it gives the registry: the same ids, each
\* with the same field values.
C18_Claim ==
    (manager = "ready" /\ Quiescent /\ ~saveFailedEver) =>
        /\ load_raises(file) = "none"
        /\ load_records(file) = [i \in Ids |-> get_webhook(i)]

\* C19: a save that fails after the registry was changed in memory is
\* reported as an error by the operation that made the change: a manager
\* operation raises the OSError, and so does the send_to_webhook call that had
\* incremented trigger_count.
C19_Claim ==
    \A t \in Threads :
        /\ \A k \in CallIdx(t) :
             (th[t].calls[k].st = "done" /\ th[t].calls[k].saveFailed)
                 => th[t].calls[k].result = "raised"
        /\ (th[t].pc = "done" /\ th[t].op \in {"create", "update", "toggle", "delete"}
              /\ th[t].writes = 0 /\ th[t].ret.kind \notin {"ValueError", "False"})
             => th[t].ret.kind = "OSError"

\* C20: the construction of the WebhookManager never raises, and when the file
\* could not be read as a registry it leaves the registry empty.
C20_Claim ==
    /\ manager \in {"none", "ready"}
    /\ (manager = "ready" /\ OpsBegun(Threads) = 0 /\ file.kind # "json")
          => webhooks = [i \in Ids |-> 0]

(* ------------------------- claims about delivery ------------------------ *)

\* C21: whatever its payload_template, a send_to_webhook call on an enabled
\* webhook (aiohttp being installed) does not raise, issues its POST, and
\* sends a body.
C21_Claim ==
    \A t \in Threads : \A k \in CallIdx(t) :
        LET c == th[t].calls[k] IN
        (aiohttp /\ c.st = "done" /\ c.wasEnabled) =>
            /\ c.result # "raised"
            /\ c.posted
            /\ c.body \in {"builtin", "merged"}

\* Thread t has a finished POST /api/webhooks/{id}/test in its record.
TestDone(t) == th[t].op = "test" /\ th[t].pc = "done"

\* C22: the test endpoint makes one send to the one webhook; it answers 404
\* without a send when the id is absent, 200 when the endpoint answered 200, 201
\* or 204, and 500 when the send failed.
C22_Claim ==
    \A t \in Handlers :
        LET cs == th[t].calls IN
        TestDone(t) =>
            /\ Len(cs) <= 1
            /\ th[t].ret.kind = "http404" <=> cs = <<>>
            /\ cs # <<>> =>
                 /\ (cs[1].answer = "accepted" /\ ~cs[1].saveFailed) => th[t].ret.kind = "http200"
                 /\ cs[1].answer \in {"rejected", "timeout", "exception"}
                        => th[t].ret.kind = "http500"

(* ---------------- claims about one pipeline run (SpecRun) --------------- *)

\* How often a channel guarded by environment variable `value` is called in a
\* run that delivers.
Calls(value) == IF strip(value) # "" THEN 1 ELSE 0

\* C23 (state part): in a run the phases come in the order email, Telegram,
\* webhooks; no exception of a channel ends the run; once a phase is passed its
\* channel was called once if its variable is set and not at all otherwise;
\* send_to_all is begun only after both, and once; a run with deliver false, or
\* one that failed before the delivery phase, calls no channel.
C23_Inv ==
    \A t \in Pipelines :
        LET r == run[t] IN
        /\ r.phase \in {"idle", "email", "telegram", "webhooks", "end", "done"}
        /\ r.ret = "raised" => (r.phase = "done" /\ r.emails = 0 /\ r.telegrams = 0 /\ th[t].n = 0)
        /\ (r.phase = "end" \/ ~r.deliver) => (r.emails = 0 /\ r.telegrams = 0 /\ th[t].n = 0)
        /\ r.phase \in {"idle", "email"} => (r.emails = 0 /\ r.telegrams = 0 /\ th[t].n = 0)
        /\ r.phase = "telegram" =>
               (r.emails = Calls(env.DELIVERY_EMAIL) /\ r.telegrams = 0 /\ th[t].n = 0)
        /\ r.phase = "webhooks" =>
               (r.emails = Calls(env.DELIVERY_EMAIL) /\ r.telegrams = Calls(env.TELEGRAM_CHAT_ID)
                  /\ th[t].n <= 1)
        /\ (r.phase = "done" /\ r.ret = "None" /\ r.deliver) =>
               /\ r.emails = Calls(env.DELIVERY_EMAIL)
               /\ r.telegrams = Calls(env.TELEGRAM_CHAT_ID)
               /\ th[t].n = 1
               /\ SendAllDone(t)

\* C23 (step part): each step of a run calls at most one channel, the earlier
\* ones first, and send_to_all begins in the webhooks phase only.
C23_Step ==
    \A t \in Pipelines :
        /\ run'[t].emails # run[t].emails =>
               (run[t].phase = "email" /\ run'[t].emails = 1 /\ run'[t].phase = "telegram")
        /\ run'[t].telegrams # run[t].telegrams =>
               (run[t].phase = "telegram" /\ run'[t].telegrams = 1 /\ run'[t].phase = "webhooks")
        /\ th'[t].n # th[t].n =>
               (run[t].phase = "webhooks" /\ th'[t].op = "send_all" /\ th'[t].n = 1)

C23_Thm == []C23_Inv /\ [][C23_Step]_vars

\* C23 witness: a finished run with deliver true whose email channel raised
\* (SMTP_PORT is no number), whose Telegram channel was then called, and whose
\* send_to_all then posted to a webhook.
C23_Witness ==
    \E t \in Pipelines :
        /\ run[t].phase = "done" /\ run[t].ret = "None" /\ run[t].deliver
        /\ run[t].email.ret = "ValueError"
        /\ run[t].telegrams = 1 /\ run[t].telegram.tried
        /\ SendAllDone(t)
        /\ \E k \in CallIdx(t) : th[t].calls[k].posted

\* C24: a channel that is not configured gives False and nothing else:
\* send_email with SMTP_HOST unset, and send_telegram with the token or the
\* chat id unset, return False, try no network send, count no failure, raise
\* nothing.
C24_Claim ==
    LET skipped == Sent("False", FALSE, 0) IN
    /\ (direct.fn = "send_email" /\ env.SMTP_HOST = "") => direct.res = skipped
    /\ (/\ direct.fn = "send_telegram"
        /\ \/ env.TELEGRAM_TOKEN = ""
           \/ (direct.chat_id = "" /\ env.TELEGRAM_CHAT_ID = ""))
           => direct.res = skipped
    /\ \A t \in Pipelines :
        /\ (run[t].emails = 1 /\ env.SMTP_HOST = "") => run[t].email = skipped
        /\ (run[t].telegrams = 1 /\ env.TELEGRAM_TOKEN = "") => run[t].telegram = skipped

(* ------------------ claims about records and the registry --------------- *)

\* The addresses whose Webhook object is changed by the step.
Mutated == {a \in DOMAIN heap : a \in DOMAIN heap' /\ heap'[a] # heap[a]}

\* C25: every step that changes a Webhook object (update, toggle, the change
\* made after an accepted delivery) sets its updated_at to the current time and
\* leaves its created_at alone.
C25_Step ==
    \A a \in Mutated :
        /\ heap'[a].updated_at = now
        /\ heap'[a].created_at = heap[a].created_at

C25_Claim == [][C25_Step]_vars

(* ------------------ claims about the payload (SpecPayload) -------------- *)

\* The part of the built text that comes from the content: for slack, what
\* follows "*title*\n".
ContentPart ==
    IF build.type = "slack"
    THEN SubSeq(build.text, Len(build.title) + 4, Len(build.text))
    ELSE build.text

\* C26: the slack and discord payloads carry the content whole when it has at
\* most 500 characters and exactly its first 500 characters, with nothing added,
\* when it is longer; the generic payload carries the content whole at any
\* length.
C26_Thm ==
    build.built =>
        LET c == build.content IN
        IF build.type \in {"slack", "discord"} /\ Len(c) > 500
        THEN ContentPart = [k \in 1..500 |-> c[k]]
        ELSE ContentPart = c

\* C26 witness: a slack payload built from a content of more than 500
\* characters.
C26_Witness == build.built /\ build.type = "slack" /\ Len(build.content) > 500

(* --------------- further claims about delivery (Spec) ------------------- *)

\* C27: a send_to_webhook call that returned False (in particular one behind a
\* false entry of a send_to_all map) has not changed trigger_count or
\* last_triggered_at of its webhook, in memory or in the file (calls whose
\* save failed set aside).
C27_Claim ==
    \A t \in Threads : \A k \in CallIdx(t) :
        LET c == th[t].calls[k] IN
        (c.st = "done" /\ c.result = "false" /\ ~c.saveFailed) =>
            ~c.stored

C29_Step ==
    \A t \in Pipelines :
        (th[t].op = "send_all" /\ th[t].pc = "save_write" /\ th'[t].pc # "save_write") =>
            \A i \in th[t].snapIds :
                webhooks[i] = 0 => (file'.data[i] = Absent /\ webhooks'[i] = 0)

C29_Claim == [][C29_Step]_vars

\* The calls of thread t that are in their success path: the POST was answered
\* 200, 201 or 204 and the call has not returned.
Running(t) == {k \in CallIdx(t) : th[t].calls[k].st = "run"}

\* The steps of the success path: the two halves of the increment and the save.
SuccessPath == {"inc_load", "inc_store", "save_open", "save_write"}

\* C30 (state part): within one send_to_all (or test) call at most one
\* delivery is in its success path, it is the one the thread is running, and
\* the event loop has control only when none is.
C30_Inv ==
    \A t \in Threads :
        /\ Cardinality(Running(t)) <= 1
        /\ \A k \in Running(t) : th[t].cur = k /\ th[t].pc \in SuccessPath
        /\ th[t].pc = "loop" => Running(t) = {}

\* C30 (step part): while a delivery is in its success path no other delivery
\* of the same call moves; and the file written by a delivery's save holds the
\* increment of every delivery of the call that had incremented by then (for
\* the webhooks still registered).
C30_Step ==
    \A t \in Threads :
        /\ (th[t].cur # 0 /\ th[t].pc \in SuccessPath) =>
               \A k \in CallIdx(t) \ {th[t].cur} : th'[t].calls[k] = th[t].calls[k]
        /\ (th[t].cur # 0 /\ th[t].pc = "save_write" /\ th'[t].pc # "save_write") =>
               \A k \in CallIdx(t) :
                   LET c == th[t].calls[k] IN
                   (c.stored /\ webhooks[heap[c.w].id] = c.w) =>
                       /\ file'.data[heap[c.w].id] # Absent
                       /\ file'.data[heap[c.w].id].trigger_count >= 1

C30_Thm == []C30_Inv /\ [][C30_Step]_vars

\* C30 witness: a send_to_all over two webhooks, both answered 200/201/204,
\* both success paths run and saved, the file holding both increments.
C30_Witness ==
    \E t \in Pipelines :
        /\ SendAllDone(t) /\ Len(th[t].calls) = 2
        /\ \A k \in CallIdx(t) : th[t].calls[k].stored /\ ~th[t].calls[k].saveFailed
        /\ \A i \in Ids : file.data[i] # Absent /\ file.data[i].trigger_count >= 1

====
